---------------------------- MODULE Spec2Model ----------------------------
(***************************************************************************)
(* A model of mwclient-cli (src/mwclient-cli/cli.py): the value coercion,  *)
(* the keyword argument builder, the result normalizer, the markdown       *)
(* post-processor and run(), the single entry point that validates the     *)
(* command line, builds the connection, dispatches one method call and     *)
(* emits its result.                                                       *)
(*                                                                         *)
(* Python values are tagged records [<type> |-> <payload>].  A             *)
(* Python str is a sequence of one-character strings.  An operation that   *)
(* can raise returns an outcome [exc |-> <exception name or "">, val].     *)
(***************************************************************************)
EXTENDS Integers, Sequences, FiniteSets, TLC

(***************************************************************************)
(* Bounds of the model.                                                    *)
(***************************************************************************)
MaxLen == 3        \* longest enumerated raw string given to parse_cli_value
MaxTokLen == 2     \* longest enumerated --kw token
MaxKw == 2         \* most --kw tokens on one command line
MaxDepth == 2      \* deepest nesting of a value given to normalize_result
MaxSeqLen == 3     \* most items a method result (list or lazy sequence) holds
MaxCap == 2        \* largest --max-items value

(***************************************************************************)
(* Python values.                                                          *)
(***************************************************************************)
NoneV == [none |-> 0]
BoolV(b) == [bool |-> b]
IntV(n) == [int |-> n]
FloatV(txt) == [float |-> txt]
StrV(s) == [str |-> s]
BytesV(bs) == [bytes |-> bs]
ListV(xs) == [list |-> xs]
TupleV(xs) == [tuple |-> xs]
SetV(xs) == [set |-> xs]
DictV(entries) == [dict |-> entries]   \* <<[k |-> key, v |-> value], ...>>
ObjV(id) == [object |-> id]

\* the type tag and the payload of a value
TypeOf(value) == CHOOSE tag \in DOMAIN value : TRUE
Val(value) == value[TypeOf(value)]

Ret(v) == [exc |-> "", val |-> v]
Raise(e) == [exc |-> e, val |-> NoneV]

Chars(n, alphabet) == UNION {[1..k -> alphabet] : k \in 0..n}

(***************************************************************************)
(* json.loads, as parse_cli_value calls it (cli.py line 46): the default   *)
(* JSONDecoder of the standard library.  Inputs of the model contain no    *)
(* backslash and no '{', so string escapes and objects are not decoded.    *)
(***************************************************************************)
WS == {" ", "\t", "\n", "\r"}
Digits == {"0", "1", "2", "3", "4", "5", "6", "7", "8", "9"}
DigitVal(c) ==
    CASE c = "0" -> 0 [] c = "1" -> 1 [] c = "2" -> 2 [] c = "3" -> 3
      [] c = "4" -> 4 [] c = "5" -> 5 [] c = "6" -> 6 [] c = "7" -> 7
      [] c = "8" -> 8 [] c = "9" -> 9

\* sys.int_info.default_max_str_digits: int() of a longer digit string
\* raises ValueError, which is not a JSONDecodeError.
IntMaxStrDigits == 4300

At(s, i) == IF i >= 1 /\ i <= Len(s) THEN s[i] ELSE ""
StartsWith(s, i, w) ==
    /\ i + Len(w) - 1 <= Len(s)
    /\ \A k \in 1..Len(w) : s[i + k - 1] = w[k]

RECURSIVE SkipWs(_, _)
SkipWs(s, i) == IF At(s, i) \in WS THEN SkipWs(s, i + 1) ELSE i

\* the last index of the run of digits that starts at i (i - 1 when none)
DigitsEnd(s, i) ==
    LET stop == {k \in i..Len(s) : s[k] \notin Digits}
    IN  IF stop = {} THEN Len(s)
        ELSE (CHOOSE k \in stop : \A m \in stop : k <= m) - 1

RECURSIVE IntOfDigits(_, _, _)
IntOfDigits(s, a, b) ==
    IF b < a THEN 0 ELSE (10 * IntOfDigits(s, a, b - 1)) + DigitVal(s[b])

Ok(v, e) == [st |-> "ok", val |-> v, end |-> e]
Fail(kind) == [st |-> kind, val |-> NoneV, end |-> 0]

\* NUMBER_RE.match at i, then int(integer) or float(...)
match_number(s, i) ==
    LET k == IF At(s, i) = "-" THEN i + 1 ELSE i
    IN  IF At(s, k) \notin Digits THEN Fail("StopIteration")
        ELSE
          LET intEnd == IF s[k] = "0" THEN k ELSE DigitsEnd(s, k)
              fracEnd == IF At(s, intEnd + 1) = "." /\ At(s, intEnd + 2) \in Digits
                         THEN DigitsEnd(s, intEnd + 2) ELSE intEnd
              p == IF At(s, fracEnd + 2) \in {"+", "-"} THEN fracEnd + 3
                   ELSE fracEnd + 2
              expEnd == IF At(s, fracEnd + 1) \in {"e", "E"} /\ At(s, p) \in Digits
                        THEN DigitsEnd(s, p) ELSE fracEnd
          IN  IF expEnd > intEnd
              THEN Ok(FloatV(SubSeq(s, i, expEnd)), expEnd + 1)
              ELSE IF intEnd - k + 1 > IntMaxStrDigits THEN Fail("ValueError")
              ELSE LET n == IntOfDigits(s, k, intEnd)
                   IN  Ok(IntV(IF k > i THEN 0 - n ELSE n), intEnd + 1)

\* py_scanstring, i the index after the opening quote
scanstring(s, i) ==
    LET stop == {k \in i..Len(s) : s[k] \in {"\"", "\t", "\n", "\r"}}
    IN  IF stop = {} THEN Fail("JSONDecodeError")
        ELSE LET q == CHOOSE k \in stop : \A m \in stop : k <= m
             IN  IF s[q] = "\"" THEN Ok(StrV(SubSeq(s, i, q - 1)), q + 1)
                 ELSE Fail("JSONDecodeError")

RECURSIVE scan_once(_, _)
RECURSIVE JSONArrayItems(_, _, _)
RECURSIVE JSONArrayNext(_, _, _)

\* JSONArray, i the index after '['
JSONArray(s, i) ==
    LET j == SkipWs(s, i)
    IN  IF At(s, j) = "]" THEN Ok(ListV(<<>>), j + 1)
        ELSE JSONArrayItems(s, j, <<>>)

\* r is the item scan_once found at the current index
JSONArrayNext(s, acc, r) ==
    IF r.st = "StopIteration" THEN Fail("JSONDecodeError")
    ELSE IF r.st # "ok" THEN r
    ELSE
      LET j == SkipWs(s, r.end)
          values == Append(acc, r.val)
      IN  IF At(s, j) = "]" THEN Ok(ListV(values), j + 1)
          ELSE IF At(s, j) # "," THEN Fail("JSONDecodeError")
          ELSE JSONArrayItems(s, SkipWs(s, j + 1), values)

JSONArrayItems(s, i, acc) == JSONArrayNext(s, acc, scan_once(s, i))

\* m is what match_number found at i; the constants come after numbers
number_or_constant(s, i, m) ==
    IF m.st # "StopIteration" THEN m
    ELSE IF StartsWith(s, i, <<"N", "a", "N">>) THEN Ok(FloatV(<<"N", "a", "N">>), i + 3)
    ELSE IF StartsWith(s, i, <<"I", "n", "f", "i", "n", "i", "t", "y">>)
         THEN Ok(FloatV(SubSeq(s, i, i + 7)), i + 8)
    ELSE IF StartsWith(s, i, <<"-", "I", "n", "f", "i", "n", "i", "t", "y">>)
         THEN Ok(FloatV(SubSeq(s, i, i + 8)), i + 9)
    ELSE Fail("StopIteration")

scan_once(s, i) ==
    LET c == At(s, i)
    IN  IF c = "" THEN Fail("StopIteration")
        ELSE IF c = "\"" THEN scanstring(s, i + 1)
        ELSE IF c = "[" THEN JSONArray(s, i + 1)
        ELSE IF StartsWith(s, i, <<"n", "u", "l", "l">>) THEN Ok(NoneV, i + 4)
        ELSE IF StartsWith(s, i, <<"t", "r", "u", "e">>) THEN Ok(BoolV(TRUE), i + 4)
        ELSE IF StartsWith(s, i, <<"f", "a", "l", "s", "e">>)
             THEN Ok(BoolV(FALSE), i + 5)
        ELSE number_or_constant(s, i, match_number(s, i))

\* JSONDecoder.decode: leading whitespace, one value, trailing whitespace,
\* then the end of the text; anything else is a JSONDecodeError.
decode(s, r) ==
    IF r.st = "StopIteration" THEN Raise("JSONDecodeError")
    ELSE IF r.st # "ok" THEN Raise(r.st)
    ELSE IF SkipWs(s, r.end) # Len(s) + 1 THEN Raise("JSONDecodeError")
    ELSE Ret(r.val)

json_loads(s) == decode(s, scan_once(s, SkipWs(s, 1)))

(***************************************************************************)
(* parse_cli_value (cli.py 44-48): only JSONDecodeError is caught.         *)
(***************************************************************************)
\* lines 47-48: r is the outcome of json.loads(raw)
except_JSONDecodeError(raw, r) ==
    IF r.exc = "JSONDecodeError" THEN Ret(StrV(raw)) ELSE r

parse_cli_value(raw) == except_JSONDecodeError(raw, json_loads(raw))

(***************************************************************************)
(* A dict is the sequence of its entries [k |-> key, v |-> value] in       *)
(* insertion order, keys pairwise distinct.  d[key] = value replaces the   *)
(* value of an existing key in place and appends a new key.                *)
(***************************************************************************)
HasKey(entries, key) == \E i \in 1..Len(entries) : entries[i].k = key
Lookup(entries, key) ==
    entries[CHOOSE i \in 1..Len(entries) : entries[i].k = key].v
DictSet(entries, key, value) ==
    IF HasKey(entries, key)
    THEN [i \in 1..Len(entries) |->
            IF entries[i].k = key THEN [k |-> key, v |-> value] ELSE entries[i]]
    ELSE Append(entries, [k |-> key, v |-> value])

(***************************************************************************)
(* parse_keyword_args (cli.py 51-60).                                      *)
(***************************************************************************)
Contains(s, c) == \E k \in 1..Len(s) : s[k] = c
IndexOf(s, c) == CHOOSE k \in 1..Len(s) : s[k] = c /\ \A m \in 1..(k - 1) : s[m] # c
\* key, raw_value = item.split("=", 1)
SplitKey(item) == SubSeq(item, 1, IndexOf(item, "=") - 1)
SplitValue(item) == SubSeq(item, IndexOf(item, "=") + 1, Len(item))

\* kwargs[key] = value (line 59)
kw_store(kwargs, key, value) == DictSet(kwargs, StrV(key), value)

RECURSIVE kw_loop(_, _, _)
\* line 59: c is the outcome of parse_cli_value(raw_value)
kw_assign(items, n, kwargs, c) ==
    IF c.exc # "" THEN Raise(c.exc)
    ELSE kw_loop(items, n + 1, kw_store(kwargs, SplitKey(items[n]), c.val))

\* lines 53-60
kw_loop(items, n, kwargs) ==
    IF n > Len(items) THEN Ret(DictV(kwargs))
    ELSE IF ~Contains(items[n], "=") THEN Raise("ValueError")
    ELSE IF SplitKey(items[n]) = <<>> THEN Raise("ValueError")
    ELSE kw_assign(items, n, kwargs, parse_cli_value(SplitValue(items[n])))

parse_keyword_args(items) == kw_loop(items, 1, <<>>)

(***************************************************************************)
(* base64.b64encode(value).decode("ascii")                                 *)
(***************************************************************************)
B64Alphabet ==
    <<"A", "B", "C", "D", "E", "F", "G", "H", "I", "J", "K", "L", "M",
      "N", "O", "P", "Q", "R", "S", "T", "U", "V", "W", "X", "Y", "Z",
      "a", "b", "c", "d", "e", "f", "g", "h", "i", "j", "k", "l", "m",
      "n", "o", "p", "q", "r", "s", "t", "u", "v", "w", "x", "y", "z",
      "0", "1", "2", "3", "4", "5", "6", "7", "8", "9", "+", "/">>
B64Char(n) == B64Alphabet[n + 1]

RECURSIVE b64encode(_)
b64encode(bs) ==
    IF Len(bs) = 0 THEN <<>>
    ELSE IF Len(bs) = 1 THEN
        <<B64Char(bs[1] \div 4), B64Char((bs[1] % 4) * 16), "=", "=">>
    ELSE IF Len(bs) = 2 THEN
        <<B64Char(bs[1] \div 4),
          B64Char(((bs[1] % 4) * 16) + (bs[2] \div 16)),
          B64Char((bs[2] % 16) * 4), "=">>
    ELSE
        <<B64Char(bs[1] \div 4),
          B64Char(((bs[1] % 4) * 16) + (bs[2] \div 16)),
          B64Char(((bs[2] % 16) * 4) + (bs[3] \div 64)),
          B64Char(bs[3] % 64)>> \o b64encode(SubSeq(bs, 4, Len(bs)))

(***************************************************************************)
(* str(key) and repr(value) of the values the model draws.                 *)
(***************************************************************************)
RECURSIVE NatToStr(_)
NatToStr(n) ==
    IF n < 10 THEN <<B64Char(52 + n)>>
    ELSE NatToStr(n \div 10) \o <<B64Char(52 + (n % 10))>>
IntToStr(n) == IF n < 0 THEN <<"-">> \o NatToStr(0 - n) ELSE NatToStr(n)

py_str(value) ==
    CASE TypeOf(value) = "str" -> Val(value)
      [] TypeOf(value) = "int" -> IntToStr(Val(value))
      [] TypeOf(value) = "float" -> Val(value)
      [] TypeOf(value) = "bool" -> IF Val(value) THEN <<"T", "r", "u", "e">>
                             ELSE <<"F", "a", "l", "s", "e">>
      [] TypeOf(value) = "none" -> <<"N", "o", "n", "e">>

\* an object of any other class: object.__repr__ names the object
py_repr(value) == <<"<", "o", "b", "j", " ">> \o IntToStr(Val(value)) \o <<">">>

(***************************************************************************)
(* normalize_result (cli.py 63-78).                                        *)
(***************************************************************************)
Key_type == <<"_", "_", "t", "y", "p", "e", "_", "_">>
Key_base64 == <<"b", "a", "s", "e", "6", "4">>
Key_size == <<"s", "i", "z", "e">>
Txt_bytes == <<"b", "y", "t", "e", "s">>

\* a variant that leaves the raw bytes in the payload
bytes_payload_raw(bs) == BytesV(bs)
\* line 71: the payload of the tagged bytes object
bytes_payload(bs) == StrV(b64encode(bs))

\* lines 69-73
normalize_bytes(bs) ==
    DictV(<<[k |-> StrV(Key_type), v |-> StrV(Txt_bytes)],
            [k |-> StrV(Key_base64), v |-> bytes_payload(bs)],
            [k |-> StrV(Key_size), v |-> IntV(Len(bs))]>>)

RECURSIVE normalize_result(_)
RECURSIVE normalize_mapping(_, _, _)

\* line 75: {str(key): normalize_result(item) for key, item in value.items()}
normalize_mapping(entries, n, acc) ==
    IF n > Len(entries) THEN acc
    ELSE normalize_mapping(entries, n + 1,
            DictSet(acc, StrV(py_str(entries[n].k)), normalize_result(entries[n].v)))

\* line 77: [normalize_result(item) for item in value]
normalize_items(xs) == [i \in 1..Len(xs) |-> normalize_result(xs[i])]

normalize_result(value) ==
    IF TypeOf(value) = "none" THEN NoneV
    ELSE IF TypeOf(value) \in {"str", "int", "float", "bool"} THEN value
    ELSE IF TypeOf(value) = "bytes" THEN normalize_bytes(Val(value))
    ELSE IF TypeOf(value) = "dict" THEN DictV(normalize_mapping(Val(value), 1, <<>>))
    ELSE IF TypeOf(value) \in {"list", "tuple", "set"} THEN ListV(normalize_items(Val(value)))
    ELSE StrV(py_repr(value))

(***************************************************************************)
(* Text helpers of the emitter and the markdown post-processor.            *)
(***************************************************************************)
PyWS == {" ", "\t", "\n", "\r", "\f"}

RECURSIVE rstrip(_, _)
rstrip(s, cs) ==
    IF Len(s) > 0 /\ s[Len(s)] \in cs THEN rstrip(SubSeq(s, 1, Len(s) - 1), cs) ELSE s
RECURSIVE lstrip(_, _)
lstrip(s, cs) ==
    IF Len(s) > 0 /\ s[1] \in cs THEN lstrip(SubSeq(s, 2, Len(s)), cs) ELSE s
strip(s) == lstrip(rstrip(s, PyWS), PyWS)

\* value.replace("_", " ").strip() (cli.py 133-134)
normalize_page_title(value) ==
    strip([i \in 1..Len(value) |-> IF value[i] = "_" THEN " " ELSE value[i]])

Key_text == <<"t", "e", "x", "t">>
Key_star == <<"*">>

\* Mapping.get(key): None when the key is absent
dict_get(d, key) == IF HasKey(Val(d), StrV(key)) THEN Lookup(Val(d), StrV(key)) ELSE NoneV

\* cli.py 137-144
extract_parse_html(parse_result) ==
    IF TypeOf(parse_result) # "dict" THEN NoneV
    ELSE LET text_data == dict_get(parse_result, Key_text)
         IN  IF TypeOf(text_data) # "dict" THEN NoneV
             ELSE LET text_html == dict_get(text_data, Key_star)
                  IN  IF TypeOf(text_html) = "str" THEN text_html ELSE NoneV

\* bool(value) of the values tested for truth
Truthy(value) ==
    CASE TypeOf(value) = "none" -> FALSE
      [] TypeOf(value) = "str" -> Val(value) # <<>>
      [] TypeOf(value) = "bool" -> Val(value)
      [] OTHER -> TRUE

\* cli.py 125-130: handled is what html2text's converter.handle(value) returned
html_to_markdown(handled) == strip(handled)

\* cli.py 157-162: the heading joined with the body
heading_of(title) == strip(<<"#", " ">> \o title)
join_heading(heading, body) ==
    IF body # <<>> THEN heading \o <<"\n", "\n">> \o body ELSE heading

(***************************************************************************)
(* json.dump(value, sys.stdout, indent=indent): the number of lines of the *)
(* text written.  Without indent the document is one line; with an indent  *)
(* every item of a non-empty list or mapping starts a line of its own and  *)
(* the closing bracket takes another.                                      *)
(***************************************************************************)
RECURSIVE SumSeq(_)
SumSeq(ns) == IF Len(ns) = 0 THEN 0 ELSE ns[1] + SumSeq(SubSeq(ns, 2, Len(ns)))

RECURSIVE json_lines(_, _)
json_lines(doc, indent) ==
    IF TypeOf(indent) = "none" THEN 1
    ELSE IF TypeOf(doc) = "list" /\ Len(Val(doc)) > 0
         THEN 2 + SumSeq([i \in 1..Len(Val(doc)) |-> json_lines(Val(doc)[i], indent)])
    ELSE IF TypeOf(doc) = "dict" /\ Len(Val(doc)) > 0
         THEN 2 + SumSeq([i \in 1..Len(Val(doc)) |-> json_lines(Val(doc)[i].v, indent)])
    ELSE 1

\* print_json (cli.py 107-109): what one call writes to standard output
json_dump(doc, indent) ==
    [fmt |-> "json", doc |-> doc, lines |-> json_lines(doc, indent)]
print_json(value, indent) == json_dump(normalize_result(value), indent)

\* print_text (cli.py 112-114)
text_written(value) == rstrip(value, {"\n"}) \o <<"\n">>
write_text(txt) ==
    [fmt |-> "text", doc |-> StrV(txt),
     lines |-> Cardinality({i \in 1..Len(txt) : txt[i] = "\n"})]
print_text(value) == write_text(text_written(value))

\* result[:max_items] (cli.py 384)
slice_to(xs, n) ==
    IF n >= 0 THEN SubSeq(xs, 1, IF n < Len(xs) THEN n ELSE Len(xs))
    ELSE SubSeq(xs, 1, IF Len(xs) + n > 0 THEN Len(xs) + n ELSE 0)

(***************************************************************************)
(* The public methods of the wrapped classes.  Members(entity) is what     *)
(* inspect.getmembers(cls) yields, sorted by name: the constructor, a      *)
(* class attribute that is no callable, and the methods the model calls.   *)
(***************************************************************************)
M_init == <<"_", "_", "i", "n", "i", "t", "_", "_">>
M_api_limit == <<"a", "p", "i", "_", "l", "i", "m", "i", "t">>
M_download == <<"d", "o", "w", "n", "l", "o", "a", "d">>
M_parse == <<"p", "a", "r", "s", "e">>
M_search == <<"s", "e", "a", "r", "c", "h">>
M_text == <<"t", "e", "x", "t">>
M_nosuch == <<"n", "o", "s", "u", "c", "h">>

Member(n, c) == [name |-> n, callable |-> c]
Members(entity) ==
    CASE entity = "site" -> <<Member(M_init, TRUE), Member(M_api_limit, FALSE),
                              Member(M_parse, TRUE), Member(M_search, TRUE)>>
      [] entity = "page" -> <<Member(M_init, TRUE), Member(M_text, TRUE)>>
      [] entity = "image" -> <<Member(M_init, TRUE), Member(M_download, TRUE),
                               Member(M_text, TRUE)>>

\* cli.py 34-41: the names of the callable members that do not start with "_"
IsPublicMethod(m) == m.callable /\ m.name[1] # "_"
list_public_methods(entity) ==
    LET kept == SelectSeq(Members(entity), IsPublicMethod)
    IN  [i \in 1..Len(kept) |-> kept[i].name]

SeqRange(xs) == {xs[i] : i \in 1..Len(xs)}

\* cli.py 366: args.method not in methods
method_known(command, method) == method \in SeqRange(list_public_methods(command))

EntityChars(entity) ==
    CASE entity = "site" -> <<"s", "i", "t", "e">>
      [] entity = "page" -> <<"p", "a", "g", "e">>
      [] entity = "image" -> <<"i", "m", "a", "g", "e">>

\* print_method_list (cli.py 117-122): one line per public method; the
\* signature text that follows the name comes from inspect.signature
print_method_list(entity) ==
    LET names == list_public_methods(entity)
    IN  [i \in 1..Len(names) |->
            [fmt |-> "method",
             doc |-> StrV(EntityChars(entity) \o <<".">> \o names[i]),
             lines |-> 1]]

(***************************************************************************)
(* The inputs: the command line, and what the wrapped library answers.     *)
(***************************************************************************)
LongDigits == [i \in 1..(IntMaxStrDigits + 1) |-> "1"]

RawAlphabet == {"0", "1", "-", "[", "]", ",", "\"", "a", "=", " "}
RawSamples ==
    {<<"t", "r", "u", "e">>, <<"f", "a", "l", "s", "e">>, <<"n", "u", "l", "l">>,
     <<"h", "e", "l", "l", "o">>, <<"[", "1", ",", "2", "]">>, LongDigits}
RawStrings == Chars(MaxLen, RawAlphabet) \cup RawSamples

KwAlphabet == {"a", "=", "1"}
KwSamples ==
    {<<"a", "=", "1">>, <<"a", "=", "2">>, <<"b", "=", "t", "r", "u", "e">>,
     <<"c", "=", "r", "a", "w">>, <<"b", "r", "o", "k", "e", "n">>,
     <<"a", "=", "1", "=", "2">>, <<"a", "=">> \o LongDigits}
KwTokens == Chars(MaxTokLen, KwAlphabet) \cup KwSamples
KwLists == UNION {[1..n -> KwTokens] : n \in 0..MaxKw}

Commands == {"site", "page", "image"}
Hosts == {NoneV, StrV(<<"h">>)}
Users == {NoneV, StrV(<<"u">>)}
Passwords == {NoneV, StrV(<<"p">>)}
MethodNames == {M_parse, M_search, M_text, M_download, M_init, M_nosuch}
Title == <<"M", "_", "P">>
ArgLists == {<<>>, <<<<"3">>>>, <<LongDigits>>}
RunKwLists ==
    {<<>>, << <<"a", "=", "1">>, <<"a", "=", "2">> >>,
     << <<"b", "r", "o", "k", "e", "n">> >>, << <<"a", "=">> \o LongDigits >>}
Indents == {NoneV, IntV(2)}
Caps == {NoneV} \cup {IntV(n) : n \in -1..MaxCap}

\* the k-th item of a sequence result, as DummyPage.numbers yields it
Item(k) == DictV(<<[k |-> StrV(<<"n">>), v |-> IntV(k - 1)]>>)
Items(n) == [k \in 1..n |-> Item(k)]
\* a lazy sequence: the items it yields, then StopIteration or an error
IterV(n, tail) == [iterator |-> [items |-> Items(n), tail |-> tail]]

ParseOK(html) ==
    DictV(<<[k |-> StrV(Key_text), v |-> DictV(<<[k |-> StrV(Key_star), v |-> StrV(html)]>>)]>>)
Html == <<"<", "p", ">">>

ResultValues ==
    {IterV(n, tail) : n \in 0..MaxSeqLen, tail \in {"stop", "raise"}}
    \cup {ListV(Items(n)) : n \in 0..MaxSeqLen}
    \cup {TupleV(Items(2))}
    \cup {StrV(<<"x">>), StrV(<<"x", "\n", "\n">>), StrV(<<" ">>)}
    \cup {DictV(<<[k |-> StrV(<<"v">>), v |-> IntV(5)]>>), ParseOK(Html),
          ParseOK(<<>>), NoneV}
ParseResponses == {ParseOK(Html), ParseOK(<<>>), DictV(<<>>), NoneV}
HandleOutputs == {<<>>, <<"m">>, <<" ", "m", "\n", "\n">>}

(***************************************************************************)
(* State.  fpc, fin, fout, fout2 hold one application of a pure function   *)
(* (SpecCoerce, SpecKw, SpecNorm); the others are one invocation of run(). *)
(* args is immutable once parsed: the model draws the command at           *)
(* parse_args and every other option at the step that first reads it.      *)
(***************************************************************************)
VARIABLES fpc, fin, fout, fout2,
          pc, args, positionals, kwargs, site, target, calls, returned,
          result, produced, pending, count, mode, stdout, rc, err

fvars == <<fpc, fin, fout, fout2>>
rvars == <<pc, args, positionals, kwargs, site, target, calls, returned,
           result, produced, pending, count, mode, stdout, rc, err>>
vars == <<fvars, rvars>>

Unread == [unread |-> 0]
Unset == [unset |-> 0]

Args0 ==
    [command |-> "", entity |-> "", host |-> Unread, username |-> Unread,
     password |-> Unread, title |-> Unread, method |-> <<>>, arg |-> <<>>,
     kw |-> <<>>, markdown |-> Unread, stream |-> Unread,
     max_items |-> Unread, indent |-> Unread]

RunInit(p) ==
    /\ pc = p
    /\ args = Args0
    /\ positionals = <<>>
    /\ kwargs = Unset
    /\ site = Unset
    /\ target = Unset
    /\ calls = <<>>
    /\ returned = Unset
    /\ result = Unset
    /\ produced = 0
    /\ pending = Unset
    /\ count = 0
    /\ mode = ""
    /\ stdout = <<>>
    /\ rc = -1
    /\ err = ""

FnInit(p, inputs) ==
    /\ fpc = p
    /\ fin \in inputs
    /\ fout = Unset
    /\ fout2 = Unset

(***************************************************************************)
(* SpecCoerce: parse_cli_value applied to one raw string.                  *)
(***************************************************************************)
CoerceCall ==
    /\ fpc = "call"
    /\ fout' = parse_cli_value(fin)
    /\ fpc' = "done"
    /\ UNCHANGED <<fin, fout2, rvars>>

InitCoerce == FnInit("call", RawStrings) /\ RunInit("off")
NextCoerce == CoerceCall
SpecCoerce == InitCoerce /\ [][NextCoerce]_vars

(***************************************************************************)
(* SpecKw: parse_keyword_args applied to one list of --kw tokens.          *)
(***************************************************************************)
KwCall ==
    /\ fpc = "call"
    /\ fout' = parse_keyword_args(fin)
    /\ fpc' = "done"
    /\ UNCHANGED <<fin, fout2, rvars>>

InitKw == FnInit("call", KwLists) /\ RunInit("off")
NextKw == KwCall
SpecKw == InitKw /\ [][NextKw]_vars

(***************************************************************************)
(* SpecNorm: a value a method can return is built by nesting, then         *)
(* normalize_result is applied to it and to its own output.  A set is the  *)
(* sequence of its elements in iteration order.                            *)
(***************************************************************************)
Atoms ==
    {NoneV, BoolV(TRUE), IntV(1), FloatV(<<"1", ".", "5">>), StrV(<<"a">>),
     StrV(<<>>), BytesV(<<>>), BytesV(<<77>>), BytesV(<<77, 97>>),
     BytesV(<<77, 97, 110>>), ObjV(1)}
Pads == {IntV(1), BytesV(<<77>>)}
Keys == {StrV(<<"a">>), IntV(1), StrV(<<"1">>)}
Hashable(value) == TypeOf(value) \notin {"list", "dict", "set"}

RECURSIVE Depth(_)
MaxOf(ns) == IF ns = {} THEN 0 ELSE CHOOSE n \in ns : \A m \in ns : m <= n
Depth(value) ==
    IF TypeOf(value) \in {"list", "tuple", "set"}
    THEN 1 + MaxOf({Depth(Val(value)[i]) : i \in 1..Len(Val(value))})
    ELSE IF TypeOf(value) = "dict"
    THEN 1 + MaxOf({Depth(Val(value)[i].v) : i \in 1..Len(Val(value))})
    ELSE 0

Build(value) ==
    /\ fpc = "build"
    /\ Depth(fin) < MaxDepth
    /\ fin' = value
    /\ UNCHANGED <<fpc, fout, fout2, rvars>>

WrapList ==
    \/ Build(ListV(<<fin>>))
    \/ \E p \in Pads : Build(ListV(<<fin, p>>)) \/ Build(ListV(<<p, fin>>))
WrapTuple ==
    \/ Build(TupleV(<<fin>>))
    \/ \E p \in Pads : Build(TupleV(<<p, fin>>))
\* == on the elements of a set: bool is a subclass of int (True == 1), a
\* tuple equals a tuple with equal items; the floats built here (1.5) equal
\* no int
py_num(value) == IF TypeOf(value) = "bool" THEN (IF Val(value) THEN 1 ELSE 0) ELSE Val(value)
RECURSIVE py_eq(_, _)
py_eq(a, b) ==
    IF TypeOf(a) \in {"bool", "int"} /\ TypeOf(b) \in {"bool", "int"}
    THEN py_num(a) = py_num(b)
    ELSE IF TypeOf(a) # TypeOf(b) THEN FALSE
    ELSE IF TypeOf(a) = "tuple"
    THEN /\ Len(Val(a)) = Len(Val(b))
         /\ \A i \in 1..Len(Val(a)) : py_eq(Val(a)[i], Val(b)[i])
    ELSE a = b
\* a set holds no two equal elements
WrapSet ==
    /\ Hashable(fin)
    /\ \E p \in Pads : ~py_eq(p, fin) /\ Build(SetV(<<fin, p>>))
WrapDict ==
    \/ \E k \in Keys : Build(DictV(<<[k |-> k, v |-> fin]>>))
    \/ \E p \in Pads :
          \/ Build(DictV(<<[k |-> IntV(1), v |-> p], [k |-> StrV(<<"1">>), v |-> fin]>>))
          \/ Build(DictV(<<[k |-> StrV(<<"1">>), v |-> fin], [k |-> IntV(1), v |-> p]>>))

NormOnce ==
    /\ fpc = "build"
    /\ fout' = normalize_result(fin)
    /\ fpc' = "once"
    /\ UNCHANGED <<fin, fout2, rvars>>

NormTwice ==
    /\ fpc = "once"
    /\ fout2' = normalize_result(fout)
    /\ fpc' = "twice"
    /\ UNCHANGED <<fin, fout, rvars>>

InitNorm == FnInit("build", Atoms) /\ RunInit("off")
NextNorm == WrapList \/ WrapTuple \/ WrapSet \/ WrapDict \/ NormOnce \/ NormTwice
SpecNorm == InitNorm /\ [][NextNorm]_vars

(***************************************************************************)
(* run() (cli.py 341-393), one action per step.  An uncaught exception     *)
(* ends the process with status 1; parser.error prints the usage message   *)
(* to standard error and ends it with status 2.                            *)
(***************************************************************************)
Call(op, name, posargs, kw) == [op |-> op, name |-> name, posargs |-> posargs, kwargs |-> kw]
PlainCall(op) == Call(op, <<>>, <<>>, Unset)

\* a variant in which reporting the error does not end the run
parser_error_returns(next) == next
\* parser.error(message) raises SystemExit: the step named next is not run
parser_error(next) == "exit"

UsageError(next, message) ==
    /\ pc' = parser_error(next)
    /\ rc' = 2
    /\ err' = message

Uncaught(exception) ==
    /\ pc' = "exit"
    /\ rc' = 1
    /\ err' = exception

Goto(next) == pc' = next /\ UNCHANGED <<rc, err>>

\* lines 342-343: the parsed command line
ParseArgs ==
    /\ pc = "start"
    /\ \/ \E e \in {"site", "page", "image", "all"} :
            /\ args' = [args EXCEPT !.command = "methods", !.entity = e]
            /\ Goto("methods")
       \/ \E c \in Commands :
            /\ args' = [args EXCEPT !.command = c]
            /\ Goto("check_host")
    /\ UNCHANGED <<fvars, positionals, kwargs, site, target, calls, returned,
                   result, produced, pending, count, mode, stdout>>

\* lines 345-350
ListMethods ==
    /\ pc = "methods"
    /\ stdout' = IF args.entity = "all"
                 THEN print_method_list("site") \o print_method_list("page")
                      \o print_method_list("image")
                 ELSE print_method_list(args.entity)
    /\ pc' = "exit"
    /\ rc' = 0
    /\ UNCHANGED <<fvars, args, positionals, kwargs, site, target, calls, returned,
                   result, produced, pending, count, mode, err>>

\* lines 352-353
CheckHost ==
    /\ pc = "check_host"
    /\ \E h \in Hosts :
         /\ args' = [args EXCEPT !.host = h]
         /\ IF ~Truthy(h)
            THEN UsageError("check_creds", "usage: missing --host")
            ELSE Goto("check_creds")
    /\ UNCHANGED <<fvars, positionals, kwargs, site, target, calls, returned,
                   result, produced, pending, count, mode, stdout>>

\* lines 355-356
CheckCreds ==
    /\ pc = "check_creds"
    /\ \E u \in Users, p \in Passwords :
         /\ args' = [args EXCEPT !.username = u, !.password = p]
         /\ IF Truthy(u) # Truthy(p)
            THEN UsageError("coerce", "usage: set both --username and --password")
            ELSE Goto("coerce")
    /\ UNCHANGED <<fvars, positionals, kwargs, site, target, calls, returned,
                   result, produced, pending, count, mode, stdout>>

\* line 358: [parse_cli_value(raw) for raw in args.arg]
RECURSIVE coerce_positionals(_, _, _)
coerce_next(raws, n, acc, c) ==
    IF c.exc # "" THEN Raise(c.exc)
    ELSE coerce_positionals(raws, n + 1, Append(acc, c.val))
coerce_positionals(raws, n, acc) ==
    IF n > Len(raws) THEN Ret(acc)
    ELSE coerce_next(raws, n, acc, parse_cli_value(raws[n]))

\* line 358 is outside the try block, so an exception is not caught
CoercePositionals ==
    /\ pc = "coerce"
    /\ \E a \in ArgLists :
         /\ args' = [args EXCEPT !.arg = a]
         /\ \E r \in {coerce_positionals(a, 1, <<>>)} :
                IF r.exc # ""
                THEN /\ Uncaught(r.exc)
                     /\ UNCHANGED positionals
                ELSE /\ positionals' = r.val
                     /\ Goto("kwargs")
    /\ UNCHANGED <<fvars, kwargs, site, target, calls, returned,
                   result, produced, pending, count, mode, stdout>>

\* lines 359-362
BuildKwargs ==
    /\ pc = "kwargs"
    /\ \E k \in RunKwLists :
         /\ args' = [args EXCEPT !.kw = k]
         /\ \E r \in {parse_keyword_args(k)} :
                IF r.exc = "ValueError"
                THEN /\ UsageError("build_site", "usage: invalid --kw")
                     /\ UNCHANGED kwargs
                ELSE /\ kwargs' = r.val
                     /\ Goto("build_site")
    /\ UNCHANGED <<fvars, positionals, site, target, calls, returned,
                   result, produced, pending, count, mode, stdout>>

\* line 364, build_site lines 82-91: the Site is constructed
BuildSite ==
    /\ pc = "build_site"
    /\ calls' = Append(calls, PlainCall("Site"))
    /\ \/ site' = [site |-> Val(args.host)] /\ Goto("login")
       \/ Uncaught("UpstreamError") /\ UNCHANGED site
    /\ UNCHANGED <<fvars, args, positionals, kwargs, target, returned,
                   result, produced, pending, count, mode, stdout>>

\* build_site lines 92-94
Login ==
    /\ pc = "login"
    /\ IF Truthy(args.username)
       THEN /\ calls' = Append(calls, PlainCall("site.login"))
            /\ (Goto("build_target") \/ Uncaught("UpstreamError"))
       ELSE /\ Goto("build_target")
            /\ UNCHANGED calls
    /\ UNCHANGED <<fvars, args, positionals, kwargs, site, target, returned,
                   result, produced, pending, count, mode, stdout>>

\* build_target lines 97-104
BuildTarget ==
    /\ pc = "build_target"
    /\ IF args.command = "site"
       THEN /\ target' = site
            /\ Goto("check_method")
            /\ UNCHANGED <<args, calls>>
       ELSE /\ args' = [args EXCEPT !.title = StrV(Title)]
            /\ calls' = Append(calls, PlainCall(IF args.command = "page" THEN "site.pages"
                                                ELSE "site.images"))
            /\ \/ /\ target' = (args.command :> Title)
                  /\ Goto("check_method")
               \/ Uncaught("UpstreamError") /\ UNCHANGED target
    /\ UNCHANGED <<fvars, positionals, kwargs, site, returned,
                   result, produced, pending, count, mode, stdout>>

\* lines 365-367
CheckMethod ==
    /\ pc = "check_method"
    /\ \E m \in MethodNames :
         /\ args' = [args EXCEPT !.method = m]
         /\ IF ~method_known(args.command, m)
            THEN UsageError("invoke", "usage: unknown method")
            ELSE Goto("invoke")
    /\ UNCHANGED <<fvars, positionals, kwargs, site, target, calls, returned,
                   result, produced, pending, count, mode, stdout>>

\* lines 368-370: the one call of the named method
Invoke ==
    /\ pc = "invoke"
    /\ calls' = Append(calls, Call("method", args.method, positionals, kwargs))
    /\ \/ \E r \in ResultValues :
            /\ returned' = r
            /\ result' = r
            /\ Goto("markdown")
       \/ Uncaught("UpstreamError") /\ UNCHANGED <<returned, result>>
    /\ UNCHANGED <<fvars, args, positionals, kwargs, site, target,
                   produced, pending, count, mode, stdout>>

(***************************************************************************)
(* maybe_convert_markdown (cli.py 147-170).                                *)
(***************************************************************************)
\* a variant that does not look at the command
is_text_any_entity(a, value) == a.method = M_text /\ TypeOf(value) = "str"
\* line 151
is_page_text(a, value) ==
    a.command = "page" /\ a.method = M_text /\ TypeOf(value) = "str"
\* line 164
is_site_parse(a) == a.command = "site" /\ a.method = M_parse

\* lines 153-162: parse_data is what site.parse returned, handled what
\* html2text made of the HTML fragment
page_markdown(tgt, value, parse_data, handled) ==
    LET parse_html == extract_parse_html(parse_data)
        heading == heading_of(normalize_page_title(Val(tgt)))
    IN  IF Truthy(parse_html)
        THEN join_heading(heading, strip(html_to_markdown(handled)))
        ELSE join_heading(heading, strip(Val(value)))

\* lines 165-168
site_parse_markdown(value, handled) ==
    IF Truthy(extract_parse_html(value)) THEN StrV(html_to_markdown(handled)) ELSE value

Markdown ==
    /\ pc = "markdown"
    /\ \E md \in BOOLEAN :
         /\ args' = [args EXCEPT !.markdown = BoolV(md)]
         /\ IF md /\ is_page_text(args, result)
            THEN /\ calls' = Append(calls, Call("site.parse", M_parse, <<>>,
                        DictV(<<[k |-> StrV(Key_text), v |-> result],
                                [k |-> StrV(<<"t", "i", "t", "l", "e">>), v |-> StrV(Val(target))]>>)))
                 /\ \/ \E parse_data \in ParseResponses, handled \in HandleOutputs :
                         /\ result' = StrV(page_markdown(target, result, parse_data, handled))
                         /\ Goto("emit")
                    \/ Uncaught("UpstreamError") /\ UNCHANGED result
            ELSE /\ UNCHANGED calls
                 /\ Goto("emit")
                 /\ IF md /\ is_site_parse(args)
                    THEN \E handled \in HandleOutputs :
                            result' = site_parse_markdown(result, handled)
                    ELSE UNCHANGED result
    /\ UNCHANGED <<fvars, positionals, kwargs, site, target, returned,
                   produced, pending, count, mode, stdout>>

(***************************************************************************)
(* The output emitter (cli.py 372-393).                                    *)
(***************************************************************************)
\* args.stream, args.max_items and args.indent, first read here
ReadFlags ==
    /\ pc = "emit"
    /\ \E st \in BOOLEAN, cap \in Caps, ind \in Indents :
         args' = [args EXCEPT !.stream = BoolV(st), !.max_items = cap, !.indent = ind]
    /\ Goto("select")
    /\ UNCHANGED <<fvars, positionals, kwargs, site, target, calls, returned,
                   result, produced, pending, count, mode, stdout>>

IsIterator(value) == TypeOf(value) = "iterator"
IsListOrTuple(value) == TypeOf(value) \in {"list", "tuple"}

\* a variant that reads an absent cap as 0
cap_reached_none_as_zero(max_items, n) ==
    n >= (IF TypeOf(max_items) = "none" THEN 0 ELSE Val(max_items))
\* line 378
cap_reached(max_items, n) == TypeOf(max_items) # "none" /\ n >= Val(max_items)

\* lines 372-374
EmitLazyStart ==
    /\ pc = "select"
    /\ IsIterator(result)
    /\ mode' = "lazy"
    /\ count' = 0
    /\ Goto("iter_next")
    /\ UNCHANGED <<fvars, args, positionals, kwargs, site, target, calls, returned,
                   result, produced, pending, stdout>>

\* line 375: the loop asks the sequence for its next item
IterNext ==
    /\ pc = "iter_next"
    /\ produced' = produced + 1
    /\ IF produced < Len(Val(result).items)
       THEN /\ pending' = Val(result).items[produced + 1]
            /\ Goto("iter_print")
       ELSE /\ UNCHANGED pending
            /\ IF Val(result).tail = "stop"
               THEN pc' = "exit" /\ rc' = 0 /\ UNCHANGED err
               ELSE Uncaught("UpstreamError")
    /\ UNCHANGED <<fvars, args, positionals, kwargs, site, target, calls, returned,
                   result, count, mode, stdout>>

\* lines 376-380
IterPrint ==
    /\ pc = "iter_print"
    /\ stdout' = Append(stdout, print_json(pending, args.indent))
    /\ count' = count + 1
    /\ pending' = Unset
    /\ IF cap_reached(args.max_items, count + 1)
       THEN pc' = "exit" /\ rc' = 0 /\ UNCHANGED err
       ELSE Goto("iter_next")
    /\ UNCHANGED <<fvars, args, positionals, kwargs, site, target, calls, returned,
                   result, produced, mode>>

\* lines 382-387
stream_items(value, max_items) ==
    IF TypeOf(max_items) = "none" THEN Val(value) ELSE slice_to(Val(value), Val(max_items))

EmitStream ==
    /\ pc = "select"
    /\ ~IsIterator(result)
    /\ Truthy(args.stream) /\ IsListOrTuple(result)
    /\ mode' = "stream"
    /\ LET items == stream_items(result, args.max_items)
       IN  stdout' = stdout \o [i \in 1..Len(items) |-> print_json(items[i], args.indent)]
    /\ pc' = "exit" /\ rc' = 0
    /\ UNCHANGED <<fvars, args, positionals, kwargs, site, target, calls, returned,
                   result, produced, pending, count, err>>

\* lines 389-390
EmitText ==
    /\ pc = "select"
    /\ ~IsIterator(result)
    /\ ~(Truthy(args.stream) /\ IsListOrTuple(result))
    /\ Truthy(args.markdown) /\ TypeOf(result) = "str"
    /\ mode' = "text"
    /\ stdout' = Append(stdout, print_text(Val(result)))
    /\ pc' = "exit" /\ rc' = 0
    /\ UNCHANGED <<fvars, args, positionals, kwargs, site, target, calls, returned,
                   result, produced, pending, count, err>>

\* lines 391-393
EmitJson ==
    /\ pc = "select"
    /\ ~IsIterator(result)
    /\ ~(Truthy(args.stream) /\ IsListOrTuple(result))
    /\ ~(Truthy(args.markdown) /\ TypeOf(result) = "str")
    /\ mode' = "json"
    /\ stdout' = Append(stdout, print_json(result, args.indent))
    /\ pc' = "exit" /\ rc' = 0
    /\ UNCHANGED <<fvars, args, positionals, kwargs, site, target, calls, returned,
                   result, produced, pending, count, err>>

Init == FnInit("off", {Unset}) /\ RunInit("start")
Next ==
    \/ ParseArgs \/ ListMethods \/ CheckHost \/ CheckCreds \/ CoercePositionals
    \/ BuildKwargs \/ BuildSite \/ Login \/ BuildTarget \/ CheckMethod \/ Invoke
    \/ Markdown \/ ReadFlags \/ EmitLazyStart \/ IterNext \/ IterPrint
    \/ EmitStream \/ EmitText \/ EmitJson
Spec == Init /\ [][Next]_vars

(***************************************************************************)
(* Properties.                                                             *)
(***************************************************************************)
IsConnectionCall(c) == c.op \in {"Site", "site.login", "site.pages", "site.images"}
IsDispatchCall(c) == ~IsConnectionCall(c)
IsMethodCall(c) == c.op = "method"
IsRenderCall(c) == c.op = "site.parse"
DispatchCalls == SelectSeq(calls, IsDispatchCall)
MinOf(a, b) == IF a < b THEN a ELSE b
\* the first n items of xs, none when n is not positive
FirstItems(xs, n) == SubSeq(xs, 1, MinOf(n, Len(xs)))
JsonLine(value) == [fmt |-> "json", doc |-> normalize_result(value), lines |-> 1]

\* C1: a run whose method name is not a public method of the entity fails
\* with the unknown-method error before any network-touching step: when the
\* error is reported the connection object has not been constructed, no
\* login has been attempted and no page or image has been looked up.
C1_UnknownMethodBeforeNetwork ==
    err = "usage: unknown method" =>
        /\ calls = <<>>
        /\ site = Unset
        /\ target = Unset

\* a cap below 0 admits no item
CapOf(n) == IF n < 0 THEN 0 ELSE n

\* C2: for a lazy sequence and a cap --max-items N, for every integer N the
\* option accepts (a negative N admitting no item), at most N items are
\* emitted, they are the first items in production order, one JSON line
\* each, and the sequence is never asked for more than N items.
C2_LazyCapRespected ==
    (IsIterator(result) /\ TypeOf(args.max_items) = "int") =>
        /\ Len(stdout) <= CapOf(Val(args.max_items))
        /\ produced <= CapOf(Val(args.max_items))
        /\ \A i \in 1..Len(stdout) : stdout[i] = JsonLine(Val(result).items[i])

\* C3 as stated: once the target is resolved exactly one call is made on the
\* wrapped library, the named method, whatever the flags.
C3_ExactlyOneUpstreamCall ==
    /\ Len(DispatchCalls) <= 1
    /\ \A i \in 1..Len(DispatchCalls) : IsMethodCall(DispatchCalls[i])
    /\ returned # Unset => Len(DispatchCalls) = 1

\* C3 as amended: the named method is invoked exactly once, with the coerced
\* positional and keyword arguments, and the only other call is one
\* site.parse render call, made after it exactly when --markdown is set, the
\* command is page, the method is text and the method returned a string.
RenderExpected ==
    /\ returned # Unset
    /\ args.markdown = BoolV(TRUE)
    /\ args.command = "page"
    /\ args.method = M_text
    /\ TypeOf(returned) = "str"
C3_OneCallPlusRender ==
    /\ Len(DispatchCalls) <= 2
    /\ returned = Unset => Len(DispatchCalls) <= 1
    /\ Len(DispatchCalls) >= 1 =>
          DispatchCalls[1] = Call("method", args.method, positionals, kwargs)
    /\ Len(DispatchCalls) = 2 => IsRenderCall(DispatchCalls[2]) /\ RenderExpected
    /\ (returned # Unset /\ pc # "markdown") =>
          (Len(DispatchCalls) = IF RenderExpected THEN 2 ELSE 1)
C3_Witness ==
    pc = "exit" /\ rc = 0 /\ Len(DispatchCalls) = 2

\* C4: a run that ends in a usage error (missing host, username without
\* password or the reverse, a malformed key=value token, an unknown method)
\* never invoked the named method and wrote nothing to standard output.
C4_UsageErrorNothingDone ==
    rc = 2 =>
        /\ \A i \in 1..Len(calls) : ~IsMethodCall(calls[i])
        /\ stdout = <<>>
C4_Witness ==
    pc = "exit" /\ rc = 2 /\ err = "usage: unknown method" /\ calls # <<>>

\* C7: a successful invocation uses one output mode, the first that matches:
\* (1) lazy sequence: one JSON line per item; (2) --stream and a list or
\* tuple: one JSON line per item of the first N items when capped, of all
\* items otherwise; (3) markdown and a string: the string as plain text
\* ending in exactly one newline; (4) the whole value as one JSON document;
\* and the exit code is 0.
EndsInOneNewline(txt) ==
    /\ Len(txt) >= 1 /\ txt[Len(txt)] = "\n"
    /\ Len(txt) >= 2 => txt[Len(txt) - 1] # "\n"
C7_OutputModes ==
    (pc = "exit" /\ rc = 0 /\ args.command # "methods") =>
        IF IsIterator(result)
        THEN /\ mode = "lazy"
             /\ \A i \in 1..Len(stdout) : stdout[i] = JsonLine(Val(result).items[i])
        ELSE IF args.stream = BoolV(TRUE) /\ IsListOrTuple(result)
        THEN /\ mode = "stream"
             /\ LET items == IF args.max_items = NoneV THEN Val(result)
                             ELSE FirstItems(Val(result), Val(args.max_items))
                IN  stdout = [i \in 1..Len(items) |-> JsonLine(items[i])]
        ELSE IF args.markdown = BoolV(TRUE) /\ TypeOf(result) = "str"
        THEN /\ mode = "text"
             /\ Len(stdout) = 1
             /\ stdout[1].fmt = "text"
             /\ EndsInOneNewline(Val(stdout[1].doc))
             /\ rstrip(Val(stdout[1].doc), {"\n"}) = rstrip(Val(result), {"\n"})
        ELSE /\ mode = "json"
             /\ Len(stdout) = 1
             /\ stdout[1].fmt = "json"
             /\ stdout[1].doc = normalize_result(result)

\* C10: for a lazy sequence emission is interleaved with production: item k
\* is emitted before item k+1 is requested, so at most one produced item is
\* not yet emitted; the emitted lines are the items in production order,
\* each once; with no cap the emitter stops only when the sequence is
\* exhausted, having emitted every item; when producing an item raises, the
\* lines of the earlier items stay emitted and nothing more is emitted.
Yielded == MinOf(produced, Len(Val(result).items))
C10_Interleaved ==
    IsIterator(result) =>
        /\ Yielded - Len(stdout) = IF pc = "iter_print" THEN 1 ELSE 0
        /\ pc = "iter_print" => pending = Val(result).items[Yielded]
        /\ \A i \in 1..Len(stdout) :
              stdout[i].doc = normalize_result(Val(result).items[i])
        /\ (pc = "exit" /\ rc = 0 /\ args.max_items = NoneV) =>
              /\ Len(stdout) = Len(Val(result).items)
              /\ produced = Len(Val(result).items) + 1
        /\ (pc = "exit" /\ mode = "lazy" /\ err = "UpstreamError") =>
              /\ Len(stdout) = Len(Val(result).items)
              /\ Val(result).tail = "raise"
C10_Kept ==
    IsIterator(result) =>
        /\ Len(stdout') >= Len(stdout)
        /\ SubSeq(stdout', 1, Len(stdout)) = stdout
C10_LazyStreaming == [](C10_Interleaved) /\ [][C10_Kept]_vars
C10_Witness ==
    /\ pc = "exit" /\ mode = "lazy" /\ err = "UpstreamError"
    /\ args.max_items = NoneV /\ Len(stdout) >= 2

(***************************************************************************)
(* Properties of the pure functions (SpecCoerce, SpecKw, SpecNorm).        *)
(***************************************************************************)
\* C5: parse_cli_value is total: for every raw string it returns the parsed
\* JSON value when the string is valid JSON and the original string
\* unchanged otherwise; it never produces an error outcome.
C5_CoercionTotal ==
    fpc = "done" =>
        /\ fout.exc = ""
        /\ fout.val = IF json_loads(fin).exc = "" THEN json_loads(fin).val
                      ELSE StrV(fin)

\* C6: parse_keyword_args fails exactly when some token has no '=' or an
\* empty key before its first '='; otherwise, for pairwise distinct keys,
\* the mapping's key set is the set of texts before each token's first '='
\* and each value is the coercion of the text after that first '='; when it
\* fails no mapping is returned.
Malformed(item) == ~Contains(item, "=") \/ item[1] = "="
DistinctKeys(items) ==
    \A i, j \in 1..Len(items) : SplitKey(items[i]) = SplitKey(items[j]) => i = j
C6_KwBuilder ==
    fpc = "done" =>
        /\ fout.exc # "" <=> \E i \in 1..Len(fin) : Malformed(fin[i])
        /\ fout.exc # "" => TypeOf(fout.val) # "dict"
        /\ (fout.exc = "" /\ DistinctKeys(fin)) =>
              /\ {Val(fout.val)[i].k : i \in 1..Len(Val(fout.val))}
                    = {StrV(SplitKey(fin[i])) : i \in 1..Len(fin)}
              /\ \A i \in 1..Len(fin) :
                    Lookup(Val(fout.val), StrV(SplitKey(fin[i])))
                        = parse_cli_value(SplitValue(fin[i])).val

\* C8: when the same key appears in more than one key=value token the
\* builder rejects the input or keeps the value of the first occurrence; it
\* never keeps the value of a later occurrence.
FirstWith(items, key) ==
    CHOOSE i \in 1..Len(items) :
        /\ SplitKey(items[i]) = key
        /\ \A j \in 1..(i - 1) : SplitKey(items[j]) # key
C8_FirstWinsOrReject ==
    (fpc = "done" /\ fout.exc = "") =>
        \A i \in 1..Len(fin) :
            Lookup(Val(fout.val), StrV(SplitKey(fin[i])))
                = parse_cli_value(SplitValue(fin[FirstWith(fin, SplitKey(fin[i]))])).val

\* C9: normalize_result is idempotent: normalizing a normalizer output
\* returns it unchanged (the tagged bytes object and the debug-string
\* fallback included), every output is made of null, booleans, numbers,
\* strings, lists and string-keyed mappings only, and a list, tuple or set
\* keeps the order of its items.
RECURSIVE IsJsonValue(_)
IsJsonValue(value) ==
    IF TypeOf(value) \in {"none", "bool", "int", "float", "str"} THEN TRUE
    ELSE IF TypeOf(value) = "list"
    THEN \A i \in 1..Len(Val(value)) : IsJsonValue(Val(value)[i])
    ELSE IF TypeOf(value) = "dict"
    THEN \A i \in 1..Len(Val(value)) :
            /\ TypeOf(Val(value)[i].k) = "str"
            /\ IsJsonValue(Val(value)[i].v)
    ELSE FALSE
C9_NormalizerIdempotent ==
    /\ fpc \in {"once", "twice"} =>
          /\ IsJsonValue(fout)
          /\ TypeOf(fin) \in {"list", "tuple", "set"} =>
                /\ TypeOf(fout) = "list"
                /\ Len(Val(fout)) = Len(Val(fin))
                /\ \A i \in 1..Len(Val(fin)) :
                      Val(fout)[i] = normalize_result(Val(fin)[i])
    /\ fpc = "twice" => fout2 = fout
C9_Witness ==
    /\ fpc = "twice"
    /\ fin = TupleV(<<BytesV(<<77>>), DictV(<<[k |-> IntV(1), v |-> ObjV(1)]>>)>>)
    /\ fout # fin

=============================================================================
